---- MODULE Spec2Model ----
(***************************************************************************)
(* Model of the notification dispatch and callback-correlation engine of   *)
(* win-notification-server.  The repository holds two programs: the        *)
(* modular server (handlers/web.rs, services/manager.rs,                   *)
(* notifications/basic.rs, utils/auth.rs) and the single-file server in    *)
(* main.rs.  The variable build says which of the two is running.          *)
(*                                                                         *)
(* Text is a sequence of one-character strings.  The literal stretches of  *)
(* the toast template hold no brace, so no placeholder can match across    *)
(* them; each is kept as one element of the sequence, which also tells     *)
(* template markup apart from characters that came from a request.         *)
(* Option<T> is a sequence of length 0 (None) or 1 (Some).                 *)
(***************************************************************************)
EXTENDS Integers, Sequences, FiniteSets, TLC

VARIABLES
    build,          \* "modular" (services/manager.rs) or "monolith" (main.rs)
    main,           \* position of fn main: "new", "bind", "run" or "exit"
    manager,        \* is_registered and notifier of the NotificationManager
    registry,       \* application ids registered under HKCU AppUserModelId
    pc,             \* per HTTP worker: position in send_notification
    request,        \* per worker: the NotificationRequest being sent
    local,          \* per worker: xml, tags and callback data of the send
    managerLock,    \* Arc<Mutex<NotificationManager>>: holder, or None
    storeLock,      \* the Mutex around NotificationManager.notifications
    notifications,  \* the HashMap tag -> NotificationData
    shown,          \* toasts handed to ToastNotifier::Show, with their handlers
    fsFiles,        \* paths of the files written below the temp directory
    started,        \* number of requests received so far
    cb,             \* the notifier-owned callback thread, its event and the
                    \* calls of the running closure that returned Err
    spawned,        \* std::process::Command spawns of the running closure
    clipboard,      \* ClipboardService::set_text calls of the running closure
    rIn,            \* the input of the one call followed: what is rendered,
                    \* the body, document or request sent, the parts read
    rOut,           \* what rendering or handle_multipart returned for it
    aIn,            \* AuthGate harness: configuration and request
    aOut            \* AuthGate harness: the decision

vars == <<build, main, manager, registry, pc, request, local, managerLock, storeLock, notifications,
          shown, fsFiles, started, cb, spawned,
          clipboard, rIn, rOut, aIn, aOut>>

sysVars == <<build, main, manager, registry, pc, request, local, managerLock, storeLock, notifications,
             shown, fsFiles, started, cb, spawned,
             clipboard>>

-----------------------------------------------------------------------------
(* Bounds of the model *)

NumWorkers == 2
MaxRequests == 2
MaxLen == 3

Workers == 1..NumWorkers

-----------------------------------------------------------------------------
(* Option<T> *)

None == <<>>
Some(x) == <<x>>
IsSome(o) == o # <<>>
Unwrap(o) == o[1]

-----------------------------------------------------------------------------
(* str::replace and the text helpers *)

RECURSIVE Replace(_, _, _)
Replace(s, pat, rep) ==
    IF Len(s) < Len(pat) THEN s
    ELSE IF SubSeq(s, 1, Len(pat)) = pat
         THEN rep \o Replace(SubSeq(s, Len(pat) + 1, Len(s)), pat, rep)
         ELSE <<s[1]>> \o Replace(Tail(s), pat, rep)

StartsWith(s, prefix) ==
    /\ Len(prefix) <= Len(s)
    /\ SubSeq(s, 1, Len(prefix)) = prefix

RECURSIVE Flatten(_)
Flatten(ss) == IF ss = <<>> THEN <<>> ELSE Head(ss) \o Flatten(Tail(ss))

AmpEntity == <<"&", "a", "m", "p", ";">>
QuotEntity == <<"&", "q", "u", "o", "t", ";">>
LtEntity == <<"&", "l", "t", ";">>
GtEntity == <<"&", "g", "t", ";">>

escape_xml_amp_last(input) ==
    Replace(Replace(Replace(Replace(input,
        <<"\"">>, QuotEntity), <<"<">>, LtEntity), <<">">>, GtEntity),
        <<"&">>, AmpEntity)

escape_xml(input) ==
    Replace(Replace(Replace(Replace(input,
        <<"&">>, AmpEntity), <<"\"">>, QuotEntity), <<"<">>, LtEntity),
        <<">">>, GtEntity)

-----------------------------------------------------------------------------
(* The toast templates.  Placeholders are text; literal markup is one      *)
(* element per stretch (the whitespace between elements is left out).      *)

TagPh == <<"{", "t", "a", "g", "}">>
TitlePh == <<"{", "t", "i", "t", "l", "e", "}">>
MessagePh == <<"{", "m", "e", "s", "s", "a", "g", "e", "}">>
ImagePh == <<"{", "i", "m", "a", "g", "e", "}">>

TplHead == "<toast launch=\"action=mainContent&amp;tag="
TplAfterTag == "\" activationType=\"foreground\" duration=\"long\"><visual><binding template=\"ToastGeneric\">"
TextOpen == "<text>"
TextClose == "</text>"
TplTail == "</binding></visual><audio src=\"ms-winsoundevent:Notification.Default\"/></toast>"
HeroOpen == "<image placement=\"hero\" src=\""
HeroClose == "\" />"
LogoOpen == "<image placement=\"appLogoOverride\" src=\"data:image/png;base64,"
LogoClose == "\"/>"

TOAST_TEMPLATE ==
    <<TplHead>> \o TagPh \o <<TplAfterTag>> \o ImagePh
        \o <<TextOpen>> \o TitlePh \o <<TextClose>>
        \o <<TextOpen>> \o MessagePh \o <<TextClose>> \o <<TplTail>>

MAIN_TOAST_TEMPLATE ==
    <<TplHead>> \o TagPh \o <<TplAfterTag>>
        \o <<TextOpen>> \o TitlePh \o <<TextClose>>
        \o <<TextOpen>> \o MessagePh \o <<TextClose>>
        \o ImagePh \o <<TplTail>>

UuidStr(n) == "uuid" \o ToString(n)
TagOf(n) == "notification_" \o UuidStr(n)

-----------------------------------------------------------------------------
(* std::path *)

Sep == "/"

LastIndexOf(s, c) ==
    IF \E i \in 1..Len(s) : s[i] = c
    THEN CHOOSE i \in 1..Len(s) :
            s[i] = c /\ \A j \in (i + 1)..Len(s) : s[j] # c
    ELSE 0

\* The last component of a path, ignoring trailing separators; None when
\* there is none or it is "..".
file_name(p) ==
    LET RECURSIVE Strip(_)
        Strip(q) == IF q # <<>> /\ q[Len(q)] = Sep
                    THEN Strip(SubSeq(q, 1, Len(q) - 1)) ELSE q
        q == Strip(p)
        last == SubSeq(q, LastIndexOf(q, Sep) + 1, Len(q))
    IN  IF q = <<>> \/ last = <<".", ".">> THEN None ELSE Some(last)

extension(p) ==
    LET fn == file_name(p)
    IN  IF ~IsSome(fn) THEN None
        ELSE LET f == Unwrap(fn)
                 i == LastIndexOf(f, ".")
             IN  IF i <= 1 THEN None ELSE Some(SubSeq(f, i + 1, Len(f)))

join(dir, name) ==
    IF StartsWith(name, <<Sep>>) THEN name
    ELSE IF dir # <<>> /\ dir[Len(dir)] = Sep THEN dir \o name
    ELSE dir \o <<Sep>> \o name

parent(p) ==
    LET i == LastIndexOf(p, Sep)
    IN  IF p = <<>> THEN None
        ELSE IF i = 0 THEN Some(<<>>)
        ELSE Some(SubSeq(p, 1, i - 1))

NOTIFICATION_ASSETS_DIR == "notification_server_assets"
TempBase == <<"%TEMP%", Sep, NOTIFICATION_ASSETS_DIR>>
TempDirOf(n) == join(TempBase, <<UuidStr(n)>>)

-----------------------------------------------------------------------------
(* Rendering *)

NoRequest ==
    [title |-> <<>>, message |-> <<>>, image_path |-> None,
     file_paths |-> None, callback_command |-> None,
     xml_payload |-> None, image_data |-> None]

\* prepare_xml without the check that the image exists.
prepare_xml_unchecked(self, tagUuid, files) ==
    [ok |-> TRUE,
     xml |-> Replace(Replace(Replace(Replace(TOAST_TEMPLATE,
               TagPh, <<TagOf(tagUuid)>>),
               TitlePh, escape_xml(self.title)),
               MessagePh, escape_xml(self.message)),
               ImagePh, IF IsSome(self.image_path)
                        THEN <<HeroOpen>> \o Unwrap(self.image_path) \o <<HeroClose>>
                        ELSE <<>>)]

\* BasicNotification::prepare_xml: tagUuid is the Uuid::new_v4() it draws,
\* files the paths that exist.
prepare_xml(self, tagUuid, files) ==
    LET tag == TagOf(tagUuid)
        img == self.image_path
        image_xml == IF IsSome(img)
                     THEN <<HeroOpen>> \o Unwrap(img) \o <<HeroClose>>
                     ELSE <<>>
    IN  IF IsSome(img) /\ Unwrap(img) \notin files
        THEN [ok |-> FALSE, xml |-> <<>>]
        ELSE [ok |-> TRUE,
              xml |-> Replace(Replace(Replace(Replace(TOAST_TEMPLATE,
                        TagPh, <<tag>>),
                        TitlePh, escape_xml(self.title)),
                        MessagePh, escape_xml(self.message)),
                        ImagePh, image_xml)]

\* The toast_xml of main.rs send_basic_notification.
basic_toast_xml(req, tagUuid) ==
    LET tag == TagOf(tagUuid)
        image_xml == IF IsSome(req.image_data)
                     THEN <<LogoOpen>> \o Unwrap(req.image_data) \o <<LogoClose>>
                     ELSE <<>>
    IN  Replace(Replace(Replace(Replace(MAIN_TOAST_TEMPLATE,
            TagPh, <<tag>>),
            TitlePh, escape_xml(req.title)),
            MessagePh, escape_xml(req.message)),
            ImagePh, image_xml)

get_callback_data(self) ==
    [callback_command |-> self.callback_command,
     message |-> self.message,
     image_path |-> self.image_path,
     file_paths |-> self.file_paths]

\* NotificationData of main.rs: a command and the message only.
main_callback_data(callback, message) ==
    [callback_command |-> callback,
     message |-> message,
     image_path |-> None,
     file_paths |-> None]

Reserved == {"&", "\"", "<", ">"}
Entities == {AmpEntity, QuotEntity, LtEntity, GtEntity}

\* Markup in which every reserved character is part of an entity.
NoRawReserved(xml) ==
    \A i \in 1..Len(xml) :
        xml[i] \in Reserved =>
            /\ xml[i] = "&"
            /\ \E e \in Entities : StartsWith(SubSeq(xml, i, Len(xml)), e)

\* XmlDocument::LoadXml rejects markup that is not well formed: a raw < or ",
\* or a & that starts no entity.
LoadXmlAccepts(xml) ==
    \A i \in 1..Len(xml) :
        /\ xml[i] \notin {"<", "\""}
        /\ xml[i] = "&" =>
              \E e \in Entities : StartsWith(SubSeq(xml, i, Len(xml)), e)

\* The tag in the launch attribute of markup rendered from a template.
LaunchTag(xml) ==
    IF Len(xml) >= 2 /\ xml[1] = TplHead THEN Some(xml[2]) ELSE None

-----------------------------------------------------------------------------
(* RequestIngestor: handlers/web.rs *)

\* multipart_field that takes text parts as they come, valid or not.
multipart_field_lossy(acc, f, temp_dir, ioOk) ==
    CASE f.name = "title" -> [acc EXCEPT !.title = f.content]
      [] f.name = "message" -> [acc EXCEPT !.message = f.content]
      [] f.name = "callback_command" ->
            [acc EXCEPT !.callback_command = Some(f.content)]
      [] OTHER -> acc

\* multipart_field answering 400 to a part it does not know.
multipart_field_rejecting(acc, f, temp_dir, ioOk) ==
    CASE f.name = "title" -> [acc EXCEPT !.title = f.content]
      [] f.name = "message" -> [acc EXCEPT !.message = f.content]
      [] f.name = "callback_command" ->
            [acc EXCEPT !.callback_command = Some(f.content)]
      [] f.name \in {"image", "files"} -> acc
      [] OTHER -> [acc EXCEPT !.status = 400]

\* One step of the `while let` loop of handle_multipart: the field f.  The
\* inner `while let Ok(Some(chunk))` loops end on Err as on the end of the
\* part, so f.content is what the part delivered before either.
multipart_field(acc, f, temp_dir, ioOk) ==
    CASE f.name = "title" ->
            IF f.utf8 THEN [acc EXCEPT !.title = f.content]
            ELSE [acc EXCEPT !.status = 400]
      [] f.name = "message" ->
            IF f.utf8 THEN [acc EXCEPT !.message = f.content]
            ELSE [acc EXCEPT !.status = 400]
      [] f.name = "callback_command" ->
            IF f.utf8 THEN [acc EXCEPT !.callback_command = Some(f.content)]
            ELSE [acc EXCEPT !.status = 400]
      [] f.name = "image" ->
            IF IsSome(f.filename)
            THEN LET ext == extension(Unwrap(f.filename))
                     file_ext == IF IsSome(ext) THEN Unwrap(ext)
                                 ELSE <<"j", "p", "g">>
                     image_filename == <<"i", "m", "a", "g", "e", ".">> \o file_ext
                     file_path == join(temp_dir, image_filename)
                 IN  IF ~ioOk THEN [acc EXCEPT !.status = 500]
                     ELSE [acc EXCEPT !.written = @ \cup {file_path},
                                      !.image_path = Some(file_path)]
            ELSE acc
      [] f.name = "files" ->
            IF IsSome(f.filename)
            THEN LET file_path == join(temp_dir, Unwrap(f.filename))
                 IN  IF ~ioOk THEN [acc EXCEPT !.status = 500]
                     ELSE [acc EXCEPT !.written = @ \cup {file_path},
                                      !.file_paths = Append(@, file_path)]
            ELSE acc
      [] OTHER -> acc

RECURSIVE multipart_loop(_, _, _, _)
multipart_loop(acc, fields, temp_dir, ioOk) ==
    IF fields = <<>> \/ acc.status # 0 THEN acc
    ELSE IF Head(fields).err = "part" THEN acc
    ELSE multipart_loop(multipart_field(acc, Head(fields), temp_dir, ioOk),
                        Tail(fields), temp_dir, ioOk)

\* handle_multipart: status 0 is Ok(request); written are the files created.
\* `while let Ok(Some(field)) = payload.try_next().await` leaves the loop on
\* Err as on the end of the stream.
handle_multipart(fields, temp_dir, ioOk) ==
    LET acc == multipart_loop(
                   [title |-> <<>>, message |-> <<>>, image_path |-> None,
                    file_paths |-> <<>>, callback_command |-> None,
                    written |-> {}, status |-> 0],
                   fields, temp_dir, ioOk)
    IN  [status |-> acc.status,
         written |-> acc.written,
         request |-> [NoRequest EXCEPT
                        !.title = acc.title,
                        !.message = acc.message,
                        !.image_path = acc.image_path,
                        !.file_paths = IF acc.file_paths = <<>> THEN None
                                       ELSE Some(acc.file_paths),
                        !.callback_command = acc.callback_command]]

\* The non-multipart branch of send_notification: FormData has a title and a
\* message only.
handle_form(form) ==
    IF ~form.valid
    THEN [status |-> 400, written |-> {}, request |-> NoRequest]
    ELSE [status |-> 0, written |-> {},
          request |-> [NoRequest EXCEPT
                         !.title = IF IsSome(form.title) THEN Unwrap(form.title) ELSE <<>>,
                         !.message = IF IsSome(form.message) THEN Unwrap(form.message) ELSE <<>>]]

-----------------------------------------------------------------------------
(* EventRouter: the closures of setup_notification_handlers *)

NoData == main_callback_data(None, <<>>)

\* HashMap::insert
hash_insert(map, key, value) ==
    [k \in DOMAIN map \cup {key} |-> IF k = key THEN value ELSE map[k]]

\* click_action with the clipboard write done on both branches.
click_action_also_copies(data) ==
    IF IsSome(data.callback_command)
    THEN [spawn |-> Some([program |-> "cmd",
                          args |-> <<"/C", Unwrap(data.callback_command)>>]),
          clip |-> Some(data.message)]
    ELSE [spawn |-> None, clip |-> Some(data.message)]

\* click_action with the else branch left out.
click_action_no_copy(data) ==
    IF IsSome(data.callback_command)
    THEN [spawn |-> Some([program |-> "cmd",
                          args |-> <<"/C", Unwrap(data.callback_command)>>]),
          clip |-> None]
    ELSE [spawn |-> None, clip |-> None]

\* The command / clipboard branch of the Activated closure.
click_action(data) ==
    IF IsSome(data.callback_command)
    THEN [spawn |-> Some([program |-> "cmd",
                          args |-> <<"/C", Unwrap(data.callback_command)>>]),
          clip |-> None]
    ELSE [spawn |-> None, clip |-> Some(data.message)]

\* directory_to_open looking at the attachments before the image.
directory_to_open_files_first(data) ==
    IF IsSome(data.file_paths) /\ Unwrap(data.file_paths) # <<>>
    THEN parent(Unwrap(data.file_paths)[1])
    ELSE IF IsSome(data.image_path)
         THEN parent(Unwrap(data.image_path))
         ELSE None

\* directory_to_open of the Activated closure of manager.rs.
directory_to_open(data) ==
    IF IsSome(data.image_path)
    THEN parent(Unwrap(data.image_path))
    ELSE IF IsSome(data.file_paths)
         THEN IF Unwrap(data.file_paths) # <<>>
              THEN parent(Unwrap(data.file_paths)[1])
              ELSE None
         ELSE None

\* activated_body acting on a default entry when the lookup misses.
activated_body_default_on_miss(store, tag, handler) ==
    LET data == IF tag \in DOMAIN store THEN store[tag] ELSE NoData
        act == click_action(data)
    IN  [spawns |-> act.spawn, clips |-> act.clip,
         store |-> hash_insert(store, tag, data)]

\* activated_body taking the entry out of the store as it acts on it.
activated_body_consuming(store, tag, handler) ==
    IF tag \notin DOMAIN store
    THEN [spawns |-> <<>>, clips |-> <<>>, store |-> store]
    ELSE LET act == click_action(store[tag])
         IN  [spawns |-> act.spawn, clips |-> act.clip,
              store |-> [k \in DOMAIN store \ {tag} |-> store[k]]]

\* What the Activated closure does once it holds the store lock: the spawns
\* and the clipboard writes, in order, and the store it leaves.  handler is
\* the build that attached the closure.
activated_body(store, tag, handler) ==
    IF tag \notin DOMAIN store
    THEN [spawns |-> <<>>, clips |-> <<>>, store |-> store]
    ELSE LET data == store[tag]
             act == click_action(data)
             dir == IF handler = "modular" THEN directory_to_open(data) ELSE None
         IN  [spawns |-> act.spawn \o
                         (IF IsSome(dir)
                          THEN <<[program |-> "explorer", args |-> <<Unwrap(dir)>>]>>
                          ELSE <<>>),
              clips |-> act.clip,
              store |-> store]

\* The calls a closure body makes to its collaborators.
steps_of(did) ==
    {"launch" : i \in {j \in 1..Len(did.spawns) : did.spawns[j].program = "cmd"}}
    \cup {"explorer" : i \in {j \in 1..Len(did.spawns) :
                                  did.spawns[j].program = "explorer"}}
    \cup {"clipboard" : i \in 1..Len(did.clips)}

\* on_error returning from the closure at the first Err, as `?` would.
on_error_propagated(did, failed) ==
    IF failed \cap {"launch", "clipboard"} # {}
    THEN [did EXCEPT !.spawns = SelectSeq(did.spawns,
                                          LAMBDA sp : sp.program = "cmd")]
    ELSE did

\* `if let Err(e) = .. { log::error!(..) }` around each call: the calls in
\* `failed` returned Err, and the closure goes on to make the calls after
\* them all the same.
on_error(did, failed) == did

DismissalReasons == {"UserCanceled", "TimedOut", "ApplicationHidden", "Other"}

\* Whether the Dismissed closure looks the tag up and acts on it.
dismissed_acts(handler, reason) ==
    handler = "monolith" /\ reason = "UserCanceled"

\* What the Dismissed closure of main.rs does for UserCanceled once it holds
\* the store lock.
dismissed_body(store, tag) ==
    IF tag \notin DOMAIN store
    THEN [spawns |-> <<>>, clips |-> <<>>, store |-> store]
    ELSE LET act == click_action(store[tag])
         IN  [spawns |-> act.spawn, clips |-> act.clip, store |-> store]

-----------------------------------------------------------------------------
(* Requests the model sends *)

TitleT == <<"T">>
MessageM == <<"m">>
Notepad == <<"n", "o", "t", "e", "p", "a", "d">>
PngName == <<"x", ".", "p", "n", "g">>
TxtName == <<"a", ".", "t", "x", "t">>
DataD == <<"d">>
ImageRef == <<"c", ":", Sep, "x", ".", "p", "n", "g">>

\* An item of the part stream.  err is "part" when payload.try_next() yields
\* Err in its place, "chunk" when the part's own stream yields Err after the
\* content shown, "none" otherwise.
TextPart(name, text) ==
    [name |-> name, filename |-> None, content |-> text, utf8 |-> TRUE,
     err |-> "none"]
FilePart(name, filename) ==
    [name |-> name, filename |-> Some(filename), content |-> <<>>, utf8 |-> TRUE,
     err |-> "none"]

\* The body of a request that is not multipart: valid is whether
\* serde_urlencoded parses it, the rest the values of the keys it holds.
FormDoc(title, message, image_path, file_paths, callback_command) ==
    [valid |-> TRUE, title |-> title, message |-> message,
     image_path |-> image_path, file_paths |-> file_paths,
     callback_command |-> callback_command]

NoForm == FormDoc(None, None, None, None, None)

\* Bodies of the modular server: a form, a multipart body with a command,
\* and one with an image and an attachment.
HttpBodies ==
    { [multipart |-> FALSE, fields |-> <<>>,
       form |-> FormDoc(Some(TitleT), Some(MessageM), None, None, None)] }
    \cup
    { [multipart |-> TRUE, fields |-> fs,
       form |-> NoForm] :
      fs \in { <<TextPart("title", TitleT), TextPart("message", MessageM),
                 TextPart("callback_command", Notepad)>>,
               <<TextPart("title", TitleT), TextPart("message", MessageM),
                 FilePart("image", PngName), FilePart("files", TxtName)>> } }

\* Bodies of main.rs: Json<NotificationRequest>, without and with a command
\* and with an xml_payload.
JsonBodies ==
    { [NoRequest EXCEPT !.title = TitleT, !.message = MessageM,
                        !.callback_command = b[1], !.xml_payload = b[2]] :
      b \in { <<None, None>>, <<Some(Notepad), None>>,
              <<Some(Notepad), Some(<<"<toast/>">>)>> } }

NoLocal ==
    [id |-> 0, xml |-> <<>>, tag |-> "", generated |-> {}, data |-> NoData,
     handlers |-> {}]

\* Uuid::new_v4(): the i-th value drawn while serving request number id.  A
\* request draws at most UuidsPerRequest of them, so no two draws are equal.
UuidsPerRequest == 4
new_v4(id, i) == UuidsPerRequest * (id - 1) + i

Event(kind, reason, tag, handler) ==
    [kind |-> kind, reason |-> reason, tag |-> tag, handler |-> handler]

NoEvent == Event("", "", "", "")

cbIdle == [pc |-> "idle", ev |-> NoEvent, failed |-> {}]

-----------------------------------------------------------------------------
(* The state after construction: NotificationManager::new succeeded and    *)
(* the HTTP server runs.                                                    *)

\* The manager as NotificationManager::new builds it before registering.
Unregistered == [is_registered |-> FALSE, notifier |-> None]

APP_ID == "TyroneCheung.NotificationServer"

\* new with the results of the two steps recorded and not propagated.
manager_new_lenient(regOk, notifierOk) ==
    [ok |-> TRUE,
     manager |-> [is_registered |-> regOk,
                  notifier |-> IF notifierOk THEN <<"notifier">> ELSE <<>>],
     registry |-> IF regOk THEN {APP_ID} ELSE {}]

\* NotificationManager::new: regOk is whether ensure_registration succeeds,
\* notifierOk whether initialize_notifier does.  Each `?` returns the error
\* and drops the manager under construction.  registry is what the registry
\* holds afterwards.
manager_new(regOk, notifierOk) ==
    IF ~regOk
    THEN [ok |-> FALSE, manager |-> Unregistered, registry |-> {}]
    ELSE IF ~notifierOk
    THEN [ok |-> FALSE, manager |-> Unregistered, registry |-> {APP_ID}]
    ELSE [ok |-> TRUE,
          manager |-> [is_registered |-> TRUE, notifier |-> Some("notifier")],
          registry |-> {APP_ID}]

harnessIdle ==
    /\ rIn = None /\ rOut = None
    /\ aIn = None /\ aOut = None

Init ==
    /\ build \in {"modular", "monolith"}
    /\ main = "run"
    /\ manager = manager_new(TRUE, TRUE).manager
    /\ registry = manager_new(TRUE, TRUE).registry
    /\ pc = [w \in Workers |-> "idle"]
    /\ request = [w \in Workers |-> NoRequest]
    /\ local = [w \in Workers |-> NoLocal]
    /\ managerLock = None
    /\ storeLock = None
    /\ notifications = <<>>
    /\ shown = {}
    /\ fsFiles = {}
    /\ started = 0
    /\ cb = cbIdle
    /\ spawned = <<>>
    /\ clipboard = <<>>
    /\ harnessIdle

harnessVars == <<rIn, rOut, aIn, aOut>>

-----------------------------------------------------------------------------
(* The request path *)

\* A send that ends here: the `?` or a match arm yields the response with
\* this status.  guard is the MutexGuard of the manager the handler holds at
\* that point, if any; pc holds the status until the handler returns.
Finish(w, status, guard) ==
    /\ pc' = [pc EXCEPT ![w] = ToString(status)]
    /\ managerLock' = IF IsSome(guard) THEN guard ELSE managerLock
    /\ request' = [request EXCEPT ![w] = NoRequest]
    /\ local' = [local EXCEPT ![w] = NoLocal]

\* The handler returns: its guard is dropped and the response leaves; the
\* worker takes the next request.
Reply(w) ==
    /\ pc[w] \in {"200", "400", "401", "500"}
    /\ pc' = [pc EXCEPT ![w] = "idle"]
    /\ managerLock' = IF managerLock = Some(w) THEN None ELSE managerLock
    /\ UNCHANGED <<build, main, manager, registry, request, local, storeLock, notifications, shown,
                   fsFiles, started, cb, spawned, clipboard, harnessVars>>

\* scratch_dir without the random identifier: one directory for all.
scratch_dir_shared(id) == join(TempBase, <<"shared">>)

\* The scratch directory of request number id (web.rs lines 147-149).
scratch_dir(id) == TempDirOf(new_v4(id, 1))

\* handlers/web.rs send_notification for the given body, up to the manager
\* lock: dirOk is whether create_dir_all succeeds, ioOk whether File::create
\* and write_all do.
Ingest(w, body, dirOk, ioOk) ==
    /\ main = "run"
    /\ started < MaxRequests
    /\ started' = started + 1
    /\ LET id == started + 1
           temp_dir == scratch_dir(id)
           r == IF body.multipart
                THEN handle_multipart(body.fields, temp_dir, ioOk)
                ELSE handle_form(body.form)
       IN  IF ~dirOk
           THEN /\ Finish(w, 500, None)
                /\ UNCHANGED fsFiles
           ELSE /\ fsFiles' = fsFiles \cup {temp_dir} \cup r.written
                /\ IF r.status # 0
                   THEN Finish(w, r.status, None)
                   ELSE /\ request' = [request EXCEPT ![w] = r.request]
                        /\ local' = [local EXCEPT ![w] = [NoLocal EXCEPT !.id = id]]
                        /\ pc' = [pc EXCEPT ![w] = "lock"]
                        /\ UNCHANGED managerLock
    /\ UNCHANGED <<build, main, manager, registry, storeLock, notifications, shown, cb, spawned,
                   clipboard>>

\* A request reaches send_notification.
Receive(w) ==
    /\ build = "modular"
    /\ pc[w] = "idle"
    /\ \E body \in HttpBodies, dirOk \in BOOLEAN, ioOk \in BOOLEAN :
         Ingest(w, body, dirOk, ioOk)
    /\ UNCHANGED harnessVars

\* main.rs send_notification, up to the manager lock.
MainReceive(w) ==
    /\ build = "monolith"
    /\ main = "run"
    /\ pc[w] = "idle"
    /\ started < MaxRequests
    /\ started' = started + 1
    /\ \E body \in JsonBodies :
         request' = [request EXCEPT ![w] = body]
    /\ local' = [local EXCEPT ![w] = [NoLocal EXCEPT !.id = started + 1]]
    /\ pc' = [pc EXCEPT ![w] = "lock"]
    /\ UNCHANGED <<build, main, manager, registry, managerLock, storeLock, notifications, shown,
                   fsFiles, cb, spawned, clipboard, harnessVars>>

\* The key under which send_typed_notification stores the callback data and
\* which it hands to the handlers: the Uuid drawn at manager.rs line 84.
typed_tag(id) == TagOf(new_v4(id, 4))

\* manager.lock().unwrap(), then manager.rs send_notification and
\* send_typed_notification up to SetTag.
SendTyped(w) ==
    /\ build = "modular"
    /\ pc[w] = "lock"
    /\ managerLock = None
    /\ LET self == request[w]
           id == local[w].id
           x == prepare_xml(self, new_v4(id, 2), fsFiles)
       IN  \E loaded \in {FALSE, manager.is_registered /\ x.ok
                                     /\ LoadXmlAccepts(x.xml)} :
             IF ~loaded
             THEN Finish(w, 500, Some(w))
             ELSE /\ local' = [local EXCEPT ![w] =
                        [id |-> id,
                         xml |-> x.xml,
                         tag |-> typed_tag(id),
                         generated |-> {TagOf(new_v4(id, 2)),
                                        TagOf(new_v4(id, 3)),
                                        TagOf(new_v4(id, 4))},
                         data |-> get_callback_data(self),
                         handlers |-> {}]]
                  /\ managerLock' = Some(w)
                  /\ pc' = [pc EXCEPT ![w] = "insert"]
                  /\ UNCHANGED request
    /\ UNCHANGED <<build, main, manager, registry, storeLock, notifications, shown, fsFiles, started,
                   cb, spawned, clipboard, harnessVars>>

\* manager.lock().unwrap(), then main.rs send_notification and
\* send_basic_notification up to its call of send_xml_notification: it
\* renders the markup and stores the callback data under the markup's tag.
MainSendBasic(w) ==
    /\ build = "monolith"
    /\ pc[w] = "lock"
    /\ managerLock = None
    /\ ~IsSome(request[w].xml_payload)
    /\ storeLock = None
    /\ LET req == request[w]
           id == local[w].id
           tag == TagOf(new_v4(id, 1))
           data == main_callback_data(req.callback_command, req.message)
       IN  IF ~manager.is_registered
           THEN Finish(w, 500, Some(w)) /\ UNCHANGED notifications
           ELSE /\ notifications' = hash_insert(notifications, tag, data)
                /\ local' = [local EXCEPT ![w] =
                      [NoLocal EXCEPT !.id = id,
                                      !.xml = basic_toast_xml(req, new_v4(id, 1)),
                                      !.generated = {tag},
                                      !.data = data]]
                /\ managerLock' = Some(w)
                /\ pc' = [pc EXCEPT ![w] = "xml"]
                /\ UNCHANGED request
    /\ UNCHANGED <<build, main, manager, registry, storeLock, shown, fsFiles, started,
                   cb, spawned, clipboard, harnessVars>>

\* main.rs send_xml_notification up to SetTag, entered under a fresh manager
\* guard with the request's xml_payload, or with the markup that
\* send_basic_notification rendered.
MainSendXml(w) ==
    /\ build = "monolith"
    /\ \/ pc[w] = "lock" /\ managerLock = None /\ IsSome(request[w].xml_payload)
       \/ pc[w] = "xml"
    /\ LET req == request[w]
           id == local[w].id
           xml == IF pc[w] = "lock" THEN Unwrap(req.xml_payload) ELSE local[w].xml
       IN  \E loaded \in {FALSE, manager.is_registered /\ LoadXmlAccepts(xml)} :
             IF ~loaded
             THEN Finish(w, 500, Some(w))
             ELSE /\ local' = [local EXCEPT ![w] =
                        [id |-> id,
                         xml |-> xml,
                         tag |-> TagOf(new_v4(id, 2)),
                         generated |-> local[w].generated
                                          \cup {TagOf(new_v4(id, 2))},
                         data |-> main_callback_data(req.callback_command,
                                                     req.message),
                         handlers |-> {}]]
                  /\ managerLock' = Some(w)
                  /\ pc' = [pc EXCEPT ![w] = "insert"]
                  /\ UNCHANGED request
    /\ UNCHANGED <<build, main, manager, registry, storeLock, notifications, shown, fsFiles, started,
                   cb, spawned, clipboard, harnessVars>>

\* store_insert with the insert left out.
store_insert_skipped(store, tag, data) == store

\* The entry the send stores: self.notifications.lock().unwrap().insert(..).
store_insert(store, tag, data) == hash_insert(store, tag, data)

\* manager.rs line 87, main.rs line 351.  The guard is a temporary: the lock
\* is taken and released within the statement.
Insert(w) ==
    /\ pc[w] = "insert"
    /\ storeLock = None
    /\ notifications' = store_insert(notifications, local[w].tag, local[w].data)
    /\ pc' = [pc EXCEPT ![w] = "handlers"]
    /\ UNCHANGED <<build, main, manager, registry, request, local, managerLock, storeLock, shown,
                   fsFiles, started, cb, spawned, clipboard, harnessVars>>

\* The tag the closures of a toast captured.
handler_tag(l) == l.tag

\* The events a toast gets a closure for, in the order of registration.
HandlerKinds == <<"Activated", "Dismissed", "Failed">>

\* The first n registrations, each closure with the tag it captured.
attach(tag, n) == {[kind |-> HandlerKinds[i], tag |-> tag] : i \in 1..n}

\* SetupHandlers with the results of the registrations dropped: the send
\* goes on to Show with the closures that did attach.
SetupHandlers_unchecked(w) ==
    /\ pc[w] = "handlers"
    /\ \E n \in 0..Len(HandlerKinds) :
         /\ local' = [local EXCEPT ![w].handlers =
                          attach(handler_tag(local[w]), n)]
         /\ pc' = [pc EXCEPT ![w] = "show"]
         /\ UNCHANGED <<request, managerLock>>
    /\ UNCHANGED <<build, main, manager, registry, storeLock, notifications, shown, fsFiles, started,
                   cb, spawned, clipboard, harnessVars>>

\* setup_notification_handlers: the three registrations, each followed by
\* `?`; n of them succeed, and the first that fails ends the send.
SetupHandlers(w) ==
    /\ pc[w] = "handlers"
    /\ \E n \in 0..Len(HandlerKinds) :
         IF n = Len(HandlerKinds)
         THEN /\ local' = [local EXCEPT ![w].handlers =
                               attach(handler_tag(local[w]), n)]
              /\ pc' = [pc EXCEPT ![w] = "show"]
              /\ UNCHANGED <<request, managerLock>>
         ELSE Finish(w, 500, Some(w))
    /\ UNCHANGED <<build, main, manager, registry, storeLock, notifications, shown, fsFiles, started,
                   cb, spawned, clipboard, harnessVars>>

\* notifier.Show(&toast) is issued: from here on the platform holds the toast
\* and may deliver its events.
ShowCall(w) ==
    /\ pc[w] = "show"
    /\ \E ok \in {FALSE, IsSome(manager.notifier)} :
         IF ok
         THEN /\ shown' = shown \cup
                    {[tag |-> handler_tag(local[w]),
                      xml |-> local[w].xml,
                      generated |-> local[w].generated,
                      handler |-> build,
                      key |-> local[w].tag,
                      handlers |-> local[w].handlers]}
              /\ pc' = [pc EXCEPT ![w] = "showing"]
              /\ UNCHANGED <<request, local, managerLock>>
         ELSE Finish(w, 500, Some(w)) /\ UNCHANGED shown
    /\ UNCHANGED <<build, main, manager, registry, storeLock, notifications, fsFiles, started, cb,
                   spawned, clipboard, harnessVars>>

\* Show returns Ok: the send returns, the handler answers 200 and drops the
\* manager guard.
ShowReturn(w) ==
    /\ pc[w] = "showing"
    /\ Finish(w, 200, Some(w))
    /\ UNCHANGED <<build, main, manager, registry, storeLock, notifications, shown, fsFiles, started,
                   cb, spawned, clipboard, harnessVars>>

-----------------------------------------------------------------------------
(* The callback path: closures run on the notifier's thread.  spawned and  *)
(* clipboard hold what the running closure has done so far.                *)

\* The closure for event e runs.  One that does not go to the store (`locks`
\* is FALSE) logs and returns at once.
Raise(e, locks) ==
    /\ cb.pc = "idle"
    /\ cb' = IF locks THEN [pc |-> "acquire", ev |-> e, failed |-> {}]
             ELSE cbIdle
    /\ UNCHANGED <<spawned, clipboard>>

\* The platform raises Activated on a shown toast.
Activated ==
    /\ \E t \in shown : Raise(Event("Activated", "", t.tag, t.handler), TRUE)
    /\ UNCHANGED <<build, main, manager, registry, pc, request, local, managerLock, storeLock,
                   notifications, shown, fsFiles, started, harnessVars>>

\* The platform raises Dismissed on a shown toast.  The closure of manager.rs
\* only logs; the one of main.rs goes on to the store for UserCanceled.
Dismissed ==
    /\ \E t \in shown, reason \in DismissalReasons :
         Raise(Event("Dismissed", reason, t.tag, t.handler),
               dismissed_acts(t.handler, reason))
    /\ UNCHANGED <<build, main, manager, registry, pc, request, local, managerLock, storeLock,
                   notifications, shown, fsFiles, started, harnessVars>>

\* The platform raises Failed on a shown toast: the closure logs the tag.
Failed ==
    /\ \E t \in shown : Raise(Event("Failed", "", t.tag, t.handler), FALSE)
    /\ UNCHANGED <<build, main, manager, registry, pc, request, local, managerLock, storeLock,
                   notifications, shown, fsFiles, started, harnessVars>>

\* CbAcquire taking the lock of the send path instead of the store's own.
CbAcquire_send_lock ==
    /\ cb.pc = "acquire"
    /\ managerLock = None
    /\ storeLock = None
    /\ storeLock' = Some("cb")
    /\ cb' = [cb EXCEPT !.pc = "body"]
    /\ UNCHANGED <<build, main, manager, registry, pc, request, local, managerLock, notifications,
                   shown, fsFiles, started, spawned, clipboard, harnessVars>>

\* notifications.lock() in a closure
CbAcquire ==
    /\ cb.pc = "acquire"
    /\ storeLock = None
    /\ storeLock' = Some("cb")
    /\ cb' = [cb EXCEPT !.pc = "body"]
    /\ UNCHANGED <<build, main, manager, registry, pc, request, local, managerLock, notifications,
                   shown, fsFiles, started, spawned, clipboard, harnessVars>>

\* CbBody run by a closure that also needs the lock of the send path while
\* it holds the store's.
CbBody_locks_manager ==
    /\ cb.pc = "body"
    /\ managerLock = None
    /\ LET e == cb.ev
           body == IF e.kind = "Activated"
                   THEN activated_body(notifications, e.tag, e.handler)
                   ELSE dismissed_body(notifications, e.tag)
       IN  \E failed \in SUBSET steps_of(body) :
             LET did == on_error(body, failed)
             IN  /\ spawned' = spawned \o did.spawns
                 /\ clipboard' = clipboard \o did.clips
                 /\ notifications' = did.store
                 /\ cb' = [cb EXCEPT !.pc = "release", !.failed = failed]
    /\ UNCHANGED <<build, main, manager, registry, pc, request, local, managerLock, storeLock, shown,
                   fsFiles, started, harnessVars>>

\* The body of the closure under the guard: lookup and side effects, any
\* of which may return Err.
CbBody ==
    /\ cb.pc = "body"
    /\ LET e == cb.ev
           body == IF e.kind = "Activated"
                   THEN activated_body(notifications, e.tag, e.handler)
                   ELSE dismissed_body(notifications, e.tag)
       IN  \E failed \in SUBSET steps_of(body) :
             LET did == on_error(body, failed)
             IN  /\ spawned' = spawned \o did.spawns
                 /\ clipboard' = clipboard \o did.clips
                 /\ notifications' = did.store
                 /\ cb' = [cb EXCEPT !.pc = "release", !.failed = failed]
    /\ UNCHANGED <<build, main, manager, registry, pc, request, local, managerLock, storeLock, shown,
                   fsFiles, started, harnessVars>>

\* The guard goes out of scope and the closure returns Ok(()).
CbRelease ==
    /\ cb.pc = "release"
    /\ storeLock' = None
    /\ cb' = cbIdle
    /\ spawned' = <<>>
    /\ clipboard' = <<>>
    /\ UNCHANGED <<build, main, manager, registry, pc, request, local, managerLock, notifications,
                   shown, fsFiles, started, harnessVars>>

Next ==
    \/ \E w \in Workers : Receive(w)
    \/ \E w \in Workers : MainReceive(w)
    \/ \E w \in Workers : SendTyped(w)
    \/ \E w \in Workers : MainSendBasic(w)
    \/ \E w \in Workers : MainSendXml(w)
    \/ \E w \in Workers : Insert(w)
    \/ \E w \in Workers : SetupHandlers(w)
    \/ \E w \in Workers : ShowCall(w)
    \/ \E w \in Workers : ShowReturn(w)
    \/ \E w \in Workers : Reply(w)
    \/ Activated
    \/ Dismissed
    \/ Failed
    \/ CbAcquire
    \/ CbBody
    \/ CbRelease

Spec == Init /\ [][Next]_vars

-----------------------------------------------------------------------------
(* The closures on their own: an event may name any tag, also one the     *)
(* store does not hold, and the store may hold any entries.               *)

RouterTags == {TagOf(1), TagOf(2), TagOf(3)}

RouterImage == join(TempDirOf(1), <<"i", "m", "a", "g", "e", ".", "p", "n", "g">>)
RouterFiles == <<join(TempDirOf(2), TxtName), join(TempDirOf(3), TxtName)>>

\* NotificationData the store may hold: that of main.rs has a command and a
\* message only.
RouterData ==
    { d \in [callback_command : {None, Some(Notepad)},
             message : {MessageM},
             image_path : {None, Some(RouterImage)},
             file_paths : {None, Some(<<>>), Some(RouterFiles)}] :
        build = "monolith" => d.image_path = None /\ d.file_paths = None }

RouterInit ==
    /\ build \in {"modular", "monolith"}
    /\ main = "run"
    /\ manager = manager_new(TRUE, TRUE).manager
    /\ registry = manager_new(TRUE, TRUE).registry
    /\ pc = [w \in Workers |-> "idle"]
    /\ request = [w \in Workers |-> NoRequest]
    /\ local = [w \in Workers |-> NoLocal]
    /\ managerLock = None
    /\ storeLock = None
    /\ \E held \in SUBSET (RouterTags \ {TagOf(3)}) :
         notifications \in [held -> RouterData]
    /\ shown = {}
    /\ fsFiles = {}
    /\ started = 0
    /\ cb = cbIdle
    /\ spawned = <<>>
    /\ clipboard = <<>>
    /\ harnessIdle

\* The platform raises an event that echoes `tag`.
RouterRaise ==
    /\ \E tag \in RouterTags, kind \in {"Activated", "Dismissed", "Failed"},
          reason \in DismissalReasons :
         Raise(Event(kind, IF kind = "Dismissed" THEN reason ELSE "", tag, build),
               \/ kind = "Activated"
               \/ kind = "Dismissed" /\ dismissed_acts(build, reason))
    /\ UNCHANGED <<build, main, manager, registry, pc, request, local, managerLock, storeLock,
                   notifications, shown, fsFiles, started, harnessVars>>

RouterNext ==
    \/ RouterRaise
    \/ CbAcquire
    \/ CbBody
    \/ CbRelease

SpecRouter == RouterInit /\ [][RouterNext]_vars

-----------------------------------------------------------------------------
(* Properties of the correlation store and of the event closures *)

\* C1: the entry for a notification's tag is in the store before Show is
\* issued for it, so whenever a closure of a shown toast looks its tag up,
\* the store holds it.
C1_StoredBeforeShow ==
    /\ \A w \in Workers :
         pc[w] \in {"show", "showing"} =>
             handler_tag(local[w]) \in DOMAIN notifications
    /\ \A t \in shown : t.tag \in DOMAIN notifications
    /\ cb.pc \in {"acquire", "body"} => cb.ev.tag \in DOMAIN notifications

C1_Witness ==
    /\ cb.pc = "body"
    /\ cb.ev.kind = "Activated"
    /\ \E t \in shown : t.tag = cb.ev.tag
    /\ \E w \in Workers : pc[w] = "show"

\* C2: one tag is generated per rendered notification, and that tag is both
\* the one in the launch attribute of the markup and the key of the store.
C2_OneTagPerNotification ==
    \A t \in shown :
        IsSome(LaunchTag(t.xml)) =>
            /\ t.generated = {t.tag}
            /\ LaunchTag(t.xml) = Some(t.tag)

\* C3: N sends produce exactly N entries: the store never holds more entries
\* than sends were made, and once every send has been shown it holds one
\* entry per send.
C3_NSendsNEntries ==
    /\ Cardinality(DOMAIN notifications) <= started
    /\ ((\A w \in Workers : pc[w] = "idle") /\ Cardinality(shown) = started)
          => Cardinality(DOMAIN notifications) = started

IsLaunch(sp) == sp.program = "cmd"

\* C4: when the Activated closure has run for a tag whose entry has a
\* callback command, it has made exactly one launch, of that command, and no
\* clipboard write.
C4_CommandLaunchedOnce ==
    ( /\ cb.pc = "release"
      /\ cb.ev.kind = "Activated"
      /\ cb.ev.tag \in DOMAIN notifications
      /\ IsSome(notifications[cb.ev.tag].callback_command) )
    => /\ SelectSeq(spawned, IsLaunch) =
            <<[program |-> "cmd",
               args |-> <<"/C", Unwrap(notifications[cb.ev.tag].callback_command)>>]>>
       /\ clipboard = <<>>

C4_Witness ==
    /\ cb.pc = "release"
    /\ cb.ev.kind = "Activated"
    /\ cb.ev.tag \in DOMAIN notifications
    /\ notifications[cb.ev.tag].callback_command = Some(Notepad)

\* C5: when the Activated closure has run for a tag whose entry has no
\* callback command, it has made exactly one clipboard write, of the stored
\* message, and no launch.
C5_MessageCopiedOnce ==
    ( /\ cb.pc = "release"
      /\ cb.ev.kind = "Activated"
      /\ cb.ev.tag \in DOMAIN notifications
      /\ ~IsSome(notifications[cb.ev.tag].callback_command) )
    => /\ clipboard = <<notifications[cb.ev.tag].message>>
       /\ SelectSeq(spawned, IsLaunch) = <<>>

C5_Witness ==
    /\ cb.pc = "release"
    /\ cb.ev.kind = "Activated"
    /\ cb.ev.tag \in DOMAIN notifications
    /\ notifications[cb.ev.tag].callback_command = None
    /\ clipboard = <<MessageM>>

\* C6: a closure whose tag is absent from the store launches nothing, copies
\* nothing, opens nothing, leaves the store as it is, and returns.
C6_AbsentTagNoEffect ==
    [][ (cb.pc = "body" /\ cb.ev.tag \notin DOMAIN notifications)
        => /\ spawned' = spawned
           /\ clipboard' = clipboard
           /\ notifications' = notifications
           /\ cb'.pc = "release" ]_vars

C6_Witness ==
    /\ cb.pc = "release"
    /\ cb.ev.kind = "Activated"
    /\ cb.ev.tag \notin DOMAIN notifications
    /\ notifications # <<>>

\* C7: a Dismissed event has no side effect, whatever its reason.
C7_DismissedNoSideEffect ==
    cb.ev.kind = "Dismissed" => spawned = <<>> /\ clipboard = <<>>

-----------------------------------------------------------------------------
(* Rendering on its own: every title, message and image name up to MaxLen *)

Alphabet == {"&", "\"", "<", ">", "a", ";"}
FileAlphabet == {"x", ".", "&"}

TextsOver(chars, n) == UNION {[1..k -> chars] : k \in 0..n}

ExampleAmp == <<"A", " ", "&", " ", "B">>
ExampleOk == <<"<", "o", "k", ">">>

RenderTexts == TextsOver(Alphabet, MaxLen) \cup {ExampleAmp, ExampleOk}
ShortTexts == TextsOver(Alphabet, 1)
FileNames == TextsOver(FileAlphabet, MaxLen) \ {<<>>}
ImageDatas == TextsOver({"Q", "\"", "&"}, 1) \ {<<>>}

RenderInit ==
    /\ Init
    /\ started = 0

\* What the build renders for a request: prepare_xml, or the toast_xml of
\* main.rs.
rendered(req, files) ==
    IF build = "modular"
    THEN prepare_xml(req, new_v4(1, 2), files)
    ELSE [ok |-> TRUE, xml |-> basic_toast_xml(req, new_v4(1, 1))]

\* A request with the given title and message and no image is rendered.
RenderText ==
    /\ rIn = None
    /\ \E text \in RenderTexts, short \in ShortTexts, swap \in BOOLEAN :
         LET title == IF swap THEN short ELSE text
             message == IF swap THEN text ELSE short
             req == [NoRequest EXCEPT !.title = title, !.message = message]
         IN  /\ rIn' = Some([title |-> title, message |-> message, image |-> None])
             /\ rOut' = Some(rendered(req, {}))
    /\ UNCHANGED <<sysVars, aIn, aOut>>

\* A request with an image is rendered: an image part named `name` that
\* handle_multipart has written, or the image_data of main.rs.
RenderImage ==
    /\ rIn = None
    /\ IF build = "modular"
       THEN \E name \in FileNames :
              LET r == handle_multipart(
                           <<TextPart("title", TitleT), TextPart("message", MessageM),
                             FilePart("image", name)>>,
                           TempDirOf(new_v4(1, 1)), TRUE)
              IN  /\ rIn' = Some([title |-> TitleT, message |-> MessageM,
                                  image |-> Some(name)])
                  /\ rOut' = Some(rendered(r.request, r.written))
       ELSE \E data \in ImageDatas :
              LET req == [NoRequest EXCEPT !.title = TitleT, !.message = MessageM,
                                           !.image_data = Some(data)]
              IN  /\ rIn' = Some([title |-> TitleT, message |-> MessageM,
                                  image |-> Some(data)])
                  /\ rOut' = Some(rendered(req, {}))
    /\ UNCHANGED <<sysVars, aIn, aOut>>

RenderNext ==
    \/ RenderText
    \/ RenderImage

SpecRender == RenderInit /\ [][RenderNext]_vars

EntityOf(c) ==
    CASE c = "&" -> AmpEntity
      [] c = "\"" -> QuotEntity
      [] c = "<" -> LtEntity
      [] c = ">" -> GtEntity
      [] OTHER -> <<c>>

\* The text with each reserved character replaced by its entity, once.
EscapedOnce(text) == Flatten([i \in 1..Len(text) |-> EntityOf(text[i])])

Contains(s, sub) ==
    \E i \in 1..(Len(s) - Len(sub) + 1) : SubSeq(s, i, i + Len(sub) - 1) = sub

\* C8: in the rendered markup the title and the message stand in their text
\* elements with each of & " < > replaced by its entity exactly once, and no
\* raw reserved character is left: A & B renders as A &amp; B, <ok> as
\* &lt;ok&gt;.
C8_TextEscapedOnce ==
    (IsSome(rOut) /\ Unwrap(rOut).ok) =>
        LET in == Unwrap(rIn)
            xml == Unwrap(rOut).xml
        IN  /\ Contains(xml, <<TextOpen>> \o EscapedOnce(in.title)
                                \o <<TextClose, TextOpen>>
                                \o EscapedOnce(in.message) \o <<TextClose>>)
            /\ in.image = None => NoRawReserved(xml)
            /\ in.title = ExampleAmp =>
                 Contains(xml, <<TextOpen>> \o <<"A", " ", "&", "a", "m", "p", ";", " ", "B">> \o <<TextClose>>)
            /\ in.message = ExampleOk =>
                 Contains(xml, <<TextOpen>> \o <<"&", "l", "t", ";", "o", "k", "&", "g", "t", ";">> \o <<TextClose>>)

C8_Witness ==
    /\ IsSome(rOut)
    /\ Unwrap(rIn).message = ExampleOk
    /\ Unwrap(rIn).title = <<"&">>
    /\ Contains(Unwrap(rOut).xml, <<TextOpen, "&", "a", "m", "p", ";", TextClose>>)

\* C9: every user-supplied text that is interpolated into the markup is
\* escaped, the image path and the image data included: rendered markup
\* holds no raw reserved character.
C9_EveryFieldEscaped ==
    (IsSome(rOut) /\ Unwrap(rOut).ok) => NoRawReserved(Unwrap(rOut).xml)

-----------------------------------------------------------------------------
(* AuthGate: AuthConfig::validate_auth_header over addresses and headers *)

B64Chars ==
    <<"A", "B", "C", "D", "E", "F", "G", "H", "I", "J", "K", "L", "M", "N", "O", "P">>
    \o <<"Q", "R", "S", "T", "U", "V", "W", "X", "Y", "Z", "a", "b", "c", "d", "e", "f">>
    \o <<"g", "h", "i", "j", "k", "l", "m", "n", "o", "p", "q", "r", "s", "t", "u", "v">>
    \o <<"w", "x", "y", "z", "0", "1", "2", "3", "4", "5", "6", "7", "8", "9", "+", "/">>

IsB64(c) == \E i \in 1..64 : B64Chars[i] = c
B64Val(c) == (CHOOSE i \in 1..64 : B64Chars[i] = c) - 1

Err == [ok |-> FALSE, bytes |-> <<>>]

\* One group of four symbols; padding only in the last group, and the bits
\* the padding drops must be zero.
decode_chunk(q, last) ==
    LET n == B64Val(q[1]) * 262144 + B64Val(q[2]) * 4096
             + (IF IsB64(q[3]) THEN B64Val(q[3]) * 64 ELSE 0)
             + (IF IsB64(q[4]) THEN B64Val(q[4]) ELSE 0)
        b1 == n \div 65536
        b2 == (n \div 256) % 256
        b3 == n % 256
    IN  IF ~(IsB64(q[1]) /\ IsB64(q[2])) THEN Err
        ELSE IF IsB64(q[3]) /\ IsB64(q[4]) THEN [ok |-> TRUE, bytes |-> <<b1, b2, b3>>]
        ELSE IF last /\ IsB64(q[3]) /\ q[4] = "=" /\ B64Val(q[3]) % 4 = 0
             THEN [ok |-> TRUE, bytes |-> <<b1, b2>>]
        ELSE IF last /\ q[3] = "=" /\ q[4] = "=" /\ B64Val(q[2]) % 16 = 0
             THEN [ok |-> TRUE, bytes |-> <<b1>>]
        ELSE Err

\* STANDARD.decode: the standard alphabet with canonical padding required.
b64_decode(s) ==
    IF Len(s) % 4 # 0 THEN Err
    ELSE LET n == Len(s) \div 4
             chunks == [k \in 1..n |-> decode_chunk(SubSeq(s, 4 * k - 3, 4 * k), k = n)]
         IN  IF \E k \in 1..n : ~chunks[k].ok THEN Err
             ELSE [ok |-> TRUE, bytes |-> Flatten([k \in 1..n |-> chunks[k].bytes])]

encode_chunk(b) ==
    LET n == b[1] * 65536 + (IF Len(b) > 1 THEN b[2] * 256 ELSE 0)
             + (IF Len(b) > 2 THEN b[3] ELSE 0)
        c1 == B64Chars[n \div 262144 + 1]
        c2 == B64Chars[((n \div 4096) % 64) + 1]
        c3 == B64Chars[((n \div 64) % 64) + 1]
        c4 == B64Chars[(n % 64) + 1]
    IN  CASE Len(b) = 3 -> <<c1, c2, c3, c4>>
          [] Len(b) = 2 -> <<c1, c2, c3, "=">>
          [] OTHER -> <<c1, c2, "=", "=">>

\* What a client puts after "Basic ": the padded encoding of the bytes.
b64_encode(bytes) ==
    LET n == (Len(bytes) + 2) \div 3
    IN  Flatten([k \in 1..n |->
            encode_chunk(SubSeq(bytes, 3 * k - 2,
                                IF 3 * k <= Len(bytes) THEN 3 * k ELSE Len(bytes)))])

CredChars == {"u", "p", "q", ":"}

ByteOf(c) ==
    CASE c = "u" -> 117
      [] c = "p" -> 112
      [] c = "q" -> 113
      [] c = ":" -> 58

as_bytes(str) == [i \in 1..Len(str) |-> ByteOf(str[i])]

\* String::from_utf8 on the bytes the headers here decode to: the ASCII of
\* CredChars is text, any byte from 128 up stands alone and is rejected.
from_utf8(bytes) ==
    IF \A i \in 1..Len(bytes) : \E c \in CredChars : ByteOf(c) = bytes[i]
    THEN [ok |-> TRUE,
          str |-> [i \in 1..Len(bytes) |-> CHOOSE c \in CredChars : ByteOf(c) = bytes[i]]]
    ELSE [ok |-> FALSE, str |-> <<>>]

\* credentials.splitn(2, ':')
splitn2(str) ==
    IF \E i \in 1..Len(str) : str[i] = ":"
    THEN LET i == CHOOSE k \in 1..Len(str) :
                      str[k] = ":" /\ \A j \in 1..(k - 1) : str[j] # ":"
         IN  <<SubSeq(str, 1, i - 1), SubSeq(str, i + 1, Len(str))>>
    ELSE <<str>>

Loopback4 == <<"1", "2", "7", ".", "0", ".", "0", ".", "1">>
Loopback6 == <<":", ":", "1">>
LocalhostName == <<"l", "o", "c", "a", "l", "h", "o", "s", "t">>
BasicPrefix == <<"B", "a", "s", "i", "c", " ">>

is_auth_required(config) == IsSome(config.username) /\ IsSome(config.password)

is_localhost_v4_only(addr) ==
    IsSome(addr) /\ StartsWith(Unwrap(addr), Loopback4)

is_localhost(addr) ==
    /\ IsSome(addr)
    /\ \/ StartsWith(Unwrap(addr), Loopback4)
       \/ StartsWith(Unwrap(addr), Loopback6)
       \/ StartsWith(Unwrap(addr), LocalhostName)

\* TRUE for Ok(true), FALSE for Err(ErrorUnauthorized).
validate_auth_header(config, addr, auth_header) ==
    IF is_localhost(addr) THEN TRUE
    ELSE IF ~is_auth_required(config) THEN TRUE
    ELSE IF auth_header = None THEN FALSE
    ELSE IF ~Unwrap(auth_header).visible_ascii THEN FALSE
    ELSE LET auth_str == Unwrap(auth_header).value
         IN  IF ~StartsWith(auth_str, BasicPrefix) THEN FALSE
             ELSE LET decoded == b64_decode(SubSeq(auth_str, 7, Len(auth_str)))
                      credentials == from_utf8(decoded.bytes)
                      parts == splitn2(credentials.str)
                  IN  IF ~decoded.ok \/ ~credentials.ok THEN FALSE
                      ELSE IF Len(parts) # 2 THEN FALSE
                      ELSE /\ parts[1] = Unwrap(config.username)
                           /\ parts[2] = Unwrap(config.password)

Header(value) == Some([visible_ascii |-> TRUE, value |-> value])
BasicOf(bytes) == Header(BasicPrefix \o b64_encode(bytes))

AuthConfigs ==
    [username : {None, Some(<<"u">>), Some(<<"u", ":">>)},
     password : {None, Some(<<"p">>), Some(<<"p", ":", "q">>)}]

\* The header a client builds for a configured pair: username ':' password.
credentials_of(config) ==
    BasicOf(as_bytes(Unwrap(config.username) \o <<":">> \o Unwrap(config.password)))

RemoteAddrs ==
    {None, Some(Loopback4), Some(Loopback6), Some(LocalhostName),
     Some(<<"1", "0", ".", "0", ".", "0", ".", "5">>), Some(<<"1", "2", "7", ".", "0", ".", "0", ".", "1", "0">>),
     Some(<<":", ":", "1", "2", "3", "4">>), Some(<<"l", "o", "c", "a", "l", "h", "o", "s", "t", ".", "e", "x", "a", "m", "p", "l", "e">>)}

AuthHeaders ==
    {None,
     Some([visible_ascii |-> FALSE, value |-> <<>>]),
     Header(<<"B", "e", "a", "r", "e", "r", " ", "d", "T", "p", "w">>),
     Header(BasicPrefix \o <<"d", "T", "p", "w", "!">>),
     Header(BasicPrefix \o <<"d", "T", "p">>),
     BasicOf(<<255>>),
     BasicOf(as_bytes(<<"u", "p">>)),
     BasicOf(as_bytes(<<"u", ":", "q">>)),
     BasicOf(as_bytes(<<"u", ":", "p">>)),
     BasicOf(as_bytes(<<"u", ":", "p", ":", "q">>))}
    \cup {credentials_of(config) : config \in {c \in AuthConfigs : is_auth_required(c)}}

AuthInit ==
    /\ Init
    /\ build = "modular"

\* AuthMiddlewareService::call evaluates validate_auth_header for a request.
AuthCall ==
    /\ aIn = None
    /\ \E config \in AuthConfigs, addr \in RemoteAddrs, auth_header \in AuthHeaders :
         /\ aIn' = Some([config |-> config, addr |-> addr, auth_header |-> auth_header])
         /\ aOut' = Some(validate_auth_header(config, addr, auth_header))
    /\ UNCHANGED <<sysVars, rIn, rOut>>

SpecAuth == AuthInit /\ [][AuthCall]_vars

\* C10: a request whose resolved client address is 127.0.0.1, ::1 or
\* localhost is allowed, whatever credentials are configured and whatever
\* Authorization header it carries or lacks.
C10_LoopbackAllowed ==
    (IsSome(aIn) /\ Unwrap(aIn).addr \in {Some(Loopback4), Some(Loopback6), Some(LocalhostName)})
        => aOut = Some(TRUE)

C10_Witness ==
    /\ IsSome(aIn)
    /\ Unwrap(aIn).addr = Some(Loopback6)
    /\ is_auth_required(Unwrap(aIn).config)
    /\ Unwrap(aIn).auth_header = None
    /\ aOut = Some(TRUE)

ExactLoopback == {Some(Loopback4), Some(Loopback6), Some(LocalhostName)}

\* C11: with both username and password configured, a request whose resolved
\* address is not exactly 127.0.0.1, ::1 or localhost and whose header is not
\* the Basic encoding of the configured pair is denied.
C11_NonLoopbackDenied ==
    IsSome(aIn) =>
        LET in == Unwrap(aIn)
        IN  (/\ is_auth_required(in.config)
             /\ in.addr \notin ExactLoopback
             /\ in.auth_header # credentials_of(in.config))
                => aOut = Some(FALSE)

\* C12: authentication is enforced if and only if both fields are
\* configured: with neither or only one every request is allowed, with both
\* a request from a non-loopback address is allowed only with the matching
\* Basic credentials.
C12_EnforcedIffBothConfigured ==
    IsSome(aIn) =>
        LET in == Unwrap(aIn)
        IN  /\ ~(IsSome(in.config.username) /\ IsSome(in.config.password))
                => aOut = Some(TRUE)
            /\ (/\ IsSome(in.config.username) /\ IsSome(in.config.password)
                /\ in.addr \notin ExactLoopback
                /\ aOut = Some(TRUE))
                => in.auth_header = credentials_of(in.config)

\* C13: for every configured username and password, a non-loopback request
\* whose Basic header encodes exactly username ':' password is allowed, also
\* when the username or the password contains a ':'.
C13_ExactCredentialsAllowed ==
    IsSome(aIn) =>
        LET in == Unwrap(aIn)
        IN  (/\ is_auth_required(in.config)
             /\ in.auth_header = credentials_of(in.config))
                => aOut = Some(TRUE)

-----------------------------------------------------------------------------
(* One request followed from AuthMiddlewareService::call to its response:  *)
(* aIn/aOut hold what the gate saw and decided, rIn the body.              *)

MultipartBody(fields) ==
    [multipart |-> TRUE, fields |-> fields,
     form |-> NoForm]

InvalidText(name) == [TextPart(name, <<>>) EXCEPT !.utf8 = FALSE]
StreamError == [TextPart("", <<>>) EXCEPT !.err = "part"]
ChunkError(part) == [part EXCEPT !.err = "chunk"]

DotDotName == <<".", ".", Sep, "x">>
AbsoluteName == <<Sep, "x">>

\* Bodies with a part that is not UTF-8.
InvalidTextBodies ==
    { MultipartBody(<<InvalidText("title"), TextPart("message", MessageM)>>),
      MultipartBody(<<TextPart("title", TitleT), InvalidText("message")>>),
      MultipartBody(<<TextPart("title", TitleT), TextPart("message", MessageM),
                      InvalidText("callback_command")>>) }

\* Bodies whose part stream, or the chunk stream of a part, breaks off.
MalformedBodies ==
    { MultipartBody(<<TextPart("title", TitleT), StreamError,
                      TextPart("message", MessageM)>>),
      MultipartBody(<<TextPart("title", TitleT),
                      ChunkError(FilePart("image", PngName)), StreamError>>),
      MultipartBody(<<ChunkError(TextPart("message", MessageM)), StreamError>>) }

\* Bodies whose file names leave the directory they are joined to.
TraversalBodies ==
    { MultipartBody(<<TextPart("title", TitleT), FilePart("files", DotDotName)>>),
      MultipartBody(<<TextPart("title", TitleT), FilePart("files", AbsoluteName)>>),
      MultipartBody(<<TextPart("title", TitleT), FilePart("image", DotDotName)>>),
      MultipartBody(<<TextPart("title", TitleT), FilePart("image", AbsoluteName)>>) }

InvalidFormBody ==
    [multipart |-> FALSE, fields |-> <<>>,
     form |-> [NoForm EXCEPT !.valid = FALSE]]

\* Documents that hold more of the canonical fields than title and message.
StructuredBodies ==
    { [multipart |-> FALSE, fields |-> <<>>,
       form |-> FormDoc(Some(TitleT), Some(MessageM), i, f, Some(Notepad))] :
      i \in {None, Some(ImageRef)}, f \in {None, Some(<<ImageRef>>)} }

RequestBodies ==
    HttpBodies \cup InvalidTextBodies \cup MalformedBodies \cup TraversalBodies
        \cup {InvalidFormBody} \cup StructuredBodies

GateConfig == [username |-> Some(<<"u">>), password |-> Some(<<"p">>)]

GateRequests ==
    [config : {GateConfig},
     addr : {Some(Loopback4), Some(<<"1", "0", ".", "0", ".", "0", ".", "5">>)},
     auth_header : {None, credentials_of(GateConfig)}]

\* AuthMiddlewareService::call, lines 130-131: the header is validated and
\* the inner service is called with the request, which yields its future.
GateCall(w) ==
    /\ main = "run"
    /\ pc[w] = "idle"
    /\ aIn = None
    /\ \E req \in GateRequests :
         /\ aIn' = Some(req)
         /\ aOut' = Some(validate_auth_header(req.config, req.addr, req.auth_header))
    /\ pc' = [pc EXCEPT ![w] = "inner"]
    /\ UNCHANGED <<build, main, manager, registry, request, local, managerLock, storeLock, notifications,
                   shown, fsFiles, started, cb, spawned, clipboard, rIn, rOut>>

\* Lines 133-136: `auth_result?` answers 401 and drops the future unpolled,
\* or the future is awaited and send_notification runs.
GateAwait(w) ==
    /\ pc[w] = "inner"
    /\ IF aOut = Some(TRUE)
       THEN \E body \in RequestBodies, dirOk \in BOOLEAN, ioOk \in BOOLEAN :
              /\ Ingest(w, body, dirOk, ioOk)
              /\ rIn' = Some(body)
       ELSE /\ Finish(w, 401, None)
            /\ UNCHANGED <<build, main, manager, registry, storeLock, notifications, shown, fsFiles,
                           started, cb, spawned, clipboard, rIn>>
    /\ UNCHANGED <<aIn, aOut, rOut>>

RequestNext ==
    \/ \E w \in Workers : GateCall(w)
    \/ \E w \in Workers : GateAwait(w)
    \/ \E w \in Workers : SendTyped(w)
    \/ \E w \in Workers : Insert(w)
    \/ \E w \in Workers : SetupHandlers(w)
    \/ \E w \in Workers : ShowCall(w)
    \/ \E w \in Workers : ShowReturn(w)
    \/ \E w \in Workers : Reply(w)

SpecRequest == AuthInit /\ [][RequestNext]_vars

\* C14: a request that AuthGate denies has none of the handler's effects,
\* and the inner service is not called for it.
C14_DeniedBeforeIngestor ==
    aOut = Some(FALSE) =>
        /\ \A w \in Workers : pc[w] # "inner"
        /\ fsFiles = {}
        /\ notifications = <<>>
        /\ shown = {}

-----------------------------------------------------------------------------
(* The two locks: Arc<Mutex<NotificationManager>> of the send path and the *)
(* Arc<Mutex<HashMap>> of the store.                                       *)

ShowInProgress(w) == pc[w] \in {"show", "showing"}

\* C15: while a Show call is in progress its worker holds the lock of the
\* send path and not the lock of the store, and the closure of an event is
\* not blocked: whichever step of its lookup it is at, acquiring the store's
\* lock included, it can take that step without the Show call returning.
C15_CallbackNotBlockedByShow ==
    \A w \in Workers :
        ShowInProgress(w) =>
            /\ managerLock = Some(w)
            /\ storeLock \in {None, Some("cb")}
            /\ cb.pc = "acquire" => ENABLED CbAcquire
            /\ cb.pc = "body" => ENABLED CbBody
            /\ cb.pc = "release" => ENABLED CbRelease

C15_Witness ==
    /\ cb.pc = "release"
    /\ storeLock = Some("cb")
    /\ \E w \in Workers : pc[w] = "showing" /\ managerLock = Some(w)

\* C16: a request's scratch directory is fresh, neither on disk before the
\* request nor the directory of an earlier request, and whenever the request
\* puts anything on disk the directory is there.
C16_FreshScratchDir ==
    [][(build = "modular" /\ started' = started + 1) =>
          LET d == scratch_dir(started')
          IN  /\ d \notin fsFiles
              /\ \A j \in 1..started : scratch_dir(j) # d
              /\ fsFiles' # fsFiles => d \in fsFiles']_vars

C16_Witness ==
    /\ scratch_dir(1) \in fsFiles
    /\ scratch_dir(2) \in fsFiles
    /\ \E f \in fsFiles : parent(f) = Some(scratch_dir(1))
    /\ \E f \in fsFiles : parent(f) = Some(scratch_dir(2))

\* The components of a path, "." dropped and ".." resolved against the
\* component before it.
Components(p) ==
    LET RECURSIVE Walk(_, _, _)
        Walk(rest, cur, acc) ==
            LET done == IF cur = <<>> \/ cur = <<".">> THEN acc
                        ELSE IF cur = <<".", ".">>
                             THEN (IF acc = <<>> THEN acc
                                   ELSE SubSeq(acc, 1, Len(acc) - 1))
                        ELSE Append(acc, cur)
            IN  IF rest = <<>> THEN done
                ELSE IF Head(rest) = Sep THEN Walk(Tail(rest), <<>>, done)
                ELSE Walk(Tail(rest), Append(cur, Head(rest)), acc)
    IN  Walk(p, <<>>, <<>>)

\* The path lies in the directory or below it.
Inside(p, dir) ==
    LET a == Components(p)
        d == Components(dir)
    IN  Len(a) >= Len(d) /\ SubSeq(a, 1, Len(d)) = d

\* C17: whatever file names the client supplies, every file a multipart
\* request writes lies inside that request's own scratch directory.
C17_WritesStayInScratchDir ==
    \A f \in fsFiles : Inside(f, scratch_dir(1))

\* C18: a multipart request with a title, message or callback_command part
\* that is not valid text is answered 400 once its scratch directory exists
\* (500 only if the directory could not be created); no store entry is
\* inserted and Show is not called for it.
C18_InvalidTextRejected ==
    (IsSome(rIn) /\ Unwrap(rIn) \in InvalidTextBodies) =>
        /\ notifications = <<>>
        /\ shown = {}
        /\ \A w \in Workers :
             /\ pc[w] \in {"idle", "400", "500"}
             /\ pc[w] = "500" => scratch_dir(1) \notin fsFiles

C18_Witness ==
    /\ IsSome(rIn)
    /\ Unwrap(rIn) \in InvalidTextBodies
    /\ scratch_dir(1) \in fsFiles
    /\ \E w \in Workers : pc[w] = "400"

\* C19: a multipart body whose part stream or chunk stream yields an error
\* is answered with a client error, and nothing is stored or shown from the
\* parts read before the error.
C19_MalformedRejected ==
    (IsSome(rIn) /\ Unwrap(rIn) \in MalformedBodies) =>
        /\ notifications = <<>>
        /\ shown = {}
        /\ \A w \in Workers :
             /\ pc[w] \in {"idle", "400", "500"}
             /\ pc[w] = "500" => scratch_dir(1) \notin fsFiles

Sending == {"lock", "insert", "handlers", "show", "showing"}

\* Bodies the spec calls malformed input.
MalformedInput == InvalidTextBodies \cup MalformedBodies \cup {InvalidFormBody}

\* C20: the response is 200 only if Show succeeded for the request; a
\* failure of rendering, handler registration or Show is answered 500; and
\* malformed input is answered 4xx (never 200, and 500 only when the scratch
\* directory could not be created).
C20_StatusMatchesOutcome ==
    /\ [](\A w \in Workers :
            /\ pc[w] = "200" => shown # {}
            /\ (IsSome(rIn) /\ Unwrap(rIn) \in MalformedInput) =>
                  /\ pc[w] \in {"idle", "400", "500"}
                  /\ pc[w] = "500" => scratch_dir(1) \notin fsFiles)
    /\ [][\A w \in Workers :
            /\ (pc[w] \in Sending /\ pc'[w] \notin Sending) =>
                  pc'[w] = (IF pc[w] = "showing" THEN "200" ELSE "500")
            /\ (pc'[w] = "200" /\ pc[w] # "200") => pc[w] = "showing"]_vars

-----------------------------------------------------------------------------
(* One request of main.rs followed from its JSON document to its response: *)
(* rIn holds the document the client sent.                                  *)

\* JSON documents a client may send: the keys of NotificationRequest of
\* main.rs and the image_path key of the request of notifications/types.rs.
JsonDocuments ==
    [title : {TitleT}, message : {MessageM},
     xml_payload : {None, Some(<<"<toast/>">>)},
     image_data : {None, Some(DataD)},
     image_path : {None, Some(ImageRef)},
     callback_command : {None, Some(Notepad)}]

\* web::Json<NotificationRequest> of main.rs: serde fills the five fields of
\* the struct and skips a key the struct does not have.
json_request(doc) ==
    [NoRequest EXCEPT !.title = doc.title,
                      !.message = doc.message,
                      !.xml_payload = doc.xml_payload,
                      !.image_data = doc.image_data,
                      !.callback_command = doc.callback_command]

JsonInit == Init /\ build = "monolith"

\* main.rs send_notification for the document, up to the manager lock.
JsonReceive(w) ==
    /\ build = "monolith"
    /\ main = "run"
    /\ pc[w] = "idle"
    /\ rIn = None
    /\ started < MaxRequests
    /\ started' = started + 1
    /\ \E doc \in JsonDocuments :
         /\ rIn' = Some(doc)
         /\ request' = [request EXCEPT ![w] = json_request(doc)]
    /\ local' = [local EXCEPT ![w] = [NoLocal EXCEPT !.id = started + 1]]
    /\ pc' = [pc EXCEPT ![w] = "lock"]
    /\ UNCHANGED <<build, main, manager, registry, managerLock, storeLock, notifications, shown,
                   fsFiles, cb, spawned, clipboard, rOut, aIn, aOut>>

JsonNext ==
    \/ \E w \in Workers : JsonReceive(w)
    \/ \E w \in Workers : MainSendBasic(w)
    \/ \E w \in Workers : MainSendXml(w)
    \/ \E w \in Workers : Insert(w)
    \/ \E w \in Workers : SetupHandlers(w)
    \/ \E w \in Workers : ShowCall(w)
    \/ \E w \in Workers : ShowReturn(w)
    \/ \E w \in Workers : Reply(w)

SpecJson == JsonInit /\ [][JsonNext]_vars

\* The document names an image file and carries inline image data as well.
BothImageInputs(doc) == IsSome(doc.image_path) /\ IsSome(doc.image_data)

\* C21: a request that supplies both a file-path image reference and inline
\* image data is rejected as a client error: nothing is rendered from it,
\* nothing is inserted into the store and nothing is shown.
C21_BothImageInputsRejected ==
    (IsSome(rIn) /\ BothImageInputs(Unwrap(rIn))) =>
        /\ notifications = <<>>
        /\ shown = {}
        /\ \A w \in Workers :
             /\ pc[w] \in {"idle", "lock", "400"}
             /\ local[w].xml = <<>>

-----------------------------------------------------------------------------
(* Startup: fn main from its first line, then the request path.            *)

StartupInit ==
    /\ build \in {"modular", "monolith"}
    /\ main = "new"
    /\ manager = Unregistered
    /\ registry = {}
    /\ pc = [w \in Workers |-> "idle"]
    /\ request = [w \in Workers |-> NoRequest]
    /\ local = [w \in Workers |-> NoLocal]
    /\ managerLock = None
    /\ storeLock = None
    /\ notifications = <<>>
    /\ shown = {}
    /\ fsFiles = {}
    /\ started = 0
    /\ cb = cbIdle
    /\ spawned = <<>>
    /\ clipboard = <<>>
    /\ harnessIdle

\* NotificationManager::new().await.context(..)? in main: on Err main
\* returns and the process ends.
New ==
    /\ main = "new"
    /\ \E regOk \in BOOLEAN, notifierOk \in BOOLEAN :
         LET r == manager_new(regOk, notifierOk)
         IN  /\ registry' = r.registry
             /\ IF r.ok
                THEN manager' = r.manager /\ main' = "bind"
                ELSE manager' = manager /\ main' = "exit"
    /\ UNCHANGED <<build, pc, request, local, managerLock, storeLock,
                   notifications, shown, fsFiles, started, cb, spawned,
                   clipboard, harnessVars>>

\* HttpServer::new(..).bind(..)?.workers(4).run(): the workers take requests
\* once the address is bound.
Bind ==
    /\ main = "bind"
    /\ \E ok \in BOOLEAN : main' = IF ok THEN "run" ELSE "exit"
    /\ UNCHANGED <<build, manager, registry, pc, request, local, managerLock,
                   storeLock, notifications, shown, fsFiles, started, cb,
                   spawned, clipboard, harnessVars>>

StartupNext ==
    \/ New
    \/ Bind
    \/ \E w \in Workers : Receive(w)
    \/ \E w \in Workers : MainReceive(w)
    \/ \E w \in Workers : SendTyped(w)
    \/ \E w \in Workers : MainSendBasic(w)
    \/ \E w \in Workers : MainSendXml(w)
    \/ \E w \in Workers : Insert(w)
    \/ \E w \in Workers : SetupHandlers(w)
    \/ \E w \in Workers : ShowCall(w)
    \/ \E w \in Workers : ShowReturn(w)
    \/ \E w \in Workers : Reply(w)

SpecStartup == StartupInit /\ [][StartupNext]_vars

\* C22: a request is taken, a send gets past its is_registered check and a
\* toast is shown only in a process whose startup registered the identity
\* and initialised the notifier; when either step fails main ends without
\* the server having taken a request.
C22_ServesOnlyWhenRegistered ==
    /\ (started > 0 \/ shown # {} \/ \E w \in Workers : pc[w] # "idle") =>
          /\ main = "run"
          /\ APP_ID \in registry
          /\ manager.is_registered
          /\ IsSome(manager.notifier)
    /\ (~manager.is_registered \/ ~IsSome(manager.notifier)) =>
          /\ main \in {"new", "exit"}
          /\ \A w \in Workers : pc[w] = "idle"
          /\ notifications = <<>>

C22_Witness ==
    /\ main = "run"
    /\ APP_ID \in registry
    /\ shown # {}
    /\ \E w \in Workers : pc[w] = "200"

-----------------------------------------------------------------------------
(* Lifetime of the entries of the store *)

\* C23: an entry of the store is never removed or changed, so every lookup
\* of a tag finds the metadata first stored under it; an activation leaves
\* the store such that activating the same tag again has the same effects.
C23_EntriesImmutable ==
    [][/\ \A t \in DOMAIN notifications :
             /\ t \in DOMAIN notifications'
             /\ notifications'[t] = notifications[t]
       /\ (cb.pc = "body" /\ cb'.pc = "release" /\ cb.ev.kind = "Activated") =>
             LET again == activated_body(notifications', cb.ev.tag, cb.ev.handler)
             IN  /\ spawned' = again.spawns
                 /\ clipboard' = again.clips]_vars

C23_Witness ==
    /\ cb.pc = "release"
    /\ cb.ev.kind = "Activated"
    /\ cb.ev.tag \in DOMAIN notifications
    /\ Len(spawned) + Len(clipboard) > 0
    /\ Cardinality(DOMAIN notifications) >= 2

-----------------------------------------------------------------------------
(* The folder the Activated closure opens *)

IsFolderOpen(sp) == sp.program = "explorer"

\* C24: the Activated closure of manager.rs, for a tag the store holds and
\* whichever of the command and clipboard branches it took, opens the
\* directory of the image when the metadata has an image path, else the
\* directory of the first attachment when the list is not empty, else no
\* folder; it opens at most one.
C24_FolderOfImageElseFirstFile ==
    (/\ cb.pc = "release"
     /\ cb.ev.kind = "Activated"
     /\ cb.ev.handler = "modular"
     /\ cb.ev.tag \in DOMAIN notifications) =>
        LET data == notifications[cb.ev.tag]
            opens == SelectSeq(spawned, IsFolderOpen)
            files == IF IsSome(data.file_paths) THEN Unwrap(data.file_paths)
                     ELSE <<>>
            dir == IF IsSome(data.image_path)
                   THEN <<Unwrap(parent(Unwrap(data.image_path)))>>
                   ELSE IF files # <<>>
                        THEN <<Unwrap(parent(files[1]))>>
                        ELSE <<>>
        IN  /\ Len(opens) <= 1
            /\ Len(opens) = Len(dir)
            /\ \A i \in 1..Len(opens) : opens[i].args = dir
            /\ Len(spawned) + Len(clipboard) = Len(opens) + 1

C24_Witness ==
    /\ cb.pc = "release"
    /\ cb.ev.kind = "Activated"
    /\ cb.ev.handler = "modular"
    /\ cb.ev.tag \in DOMAIN notifications
    /\ notifications[cb.ev.tag].image_path = Some(RouterImage)
    /\ notifications[cb.ev.tag].file_paths = Some(RouterFiles)
    /\ \E i \in 1..Len(spawned) :
         IsFolderOpen(spawned[i]) /\ spawned[i].args = <<TempDirOf(1)>>

-----------------------------------------------------------------------------
(* The store's lock during the side effects of a closure *)

\* C25: a closure holds the lock of the store for the lookup only: by the
\* time it has launched a process, written the clipboard or opened a
\* folder it has released the lock, so no Insert of the send path waits for
\* those effects.
C25_EffectsAfterRelease ==
    (spawned # <<>> \/ clipboard # <<>>) =>
        /\ storeLock # Some("cb")
        /\ \A w \in Workers : pc[w] = "insert" => ENABLED Insert(w)

-----------------------------------------------------------------------------
(* Failures of the calls a closure makes *)

\* C26: when the process launch or the clipboard write of an Activated
\* closure fails, the closure still opens the folder the metadata calls for,
\* leaves the store as it was, and returns Ok to the platform.
C26_FailureSwallowed ==
    /\ [][(/\ cb.pc = "body"
           /\ cb'.pc = "release"
           /\ cb.ev.kind = "Activated"
           /\ cb'.failed \cap {"launch", "clipboard"} # {}) =>
             LET dir == IF cb.ev.handler = "modular"
                        THEN directory_to_open(notifications[cb.ev.tag])
                        ELSE None
             IN  /\ notifications' = notifications
                 /\ SelectSeq(spawned', IsFolderOpen) =
                       IF IsSome(dir)
                       THEN <<[program |-> "explorer", args |-> <<Unwrap(dir)>>]>>
                       ELSE <<>>]_vars
    /\ [](cb.pc = "release" => ENABLED CbRelease)
    /\ [][(cb.pc = "release" /\ cb'.pc # "release") =>
             cb' = cbIdle /\ notifications' = notifications]_vars

C26_Witness ==
    /\ cb.pc = "release"
    /\ cb.ev.kind = "Activated"
    /\ cb.failed = {"launch"}
    /\ \E i \in 1..Len(spawned) : IsFolderOpen(spawned[i])

-----------------------------------------------------------------------------
(* NotificationManager::send_notification called with a request of any     *)
(* content: rIn holds the request, fsFiles the files on disk at the call.   *)

SendRequests ==
    { [NoRequest EXCEPT !.title = TitleT, !.message = MessageM,
                        !.image_path = i, !.file_paths = f,
                        !.callback_command = c] :
      i \in {None, Some(ImageRef)},
      f \in {None, Some(<<ImageRef>>)},
      c \in {None, Some(Notepad)} }

SendInit ==
    /\ build = "modular"
    /\ main = "run"
    /\ manager = manager_new(TRUE, TRUE).manager
    /\ registry = manager_new(TRUE, TRUE).registry
    /\ pc = [w \in Workers |-> "idle"]
    /\ request = [w \in Workers |-> NoRequest]
    /\ local = [w \in Workers |-> NoLocal]
    /\ managerLock = None
    /\ storeLock = None
    /\ notifications = <<>>
    /\ shown = {}
    /\ fsFiles \in {{}, {ImageRef}}
    /\ started = 0
    /\ cb = cbIdle
    /\ spawned = <<>>
    /\ clipboard = <<>>
    /\ harnessIdle

\* A caller hands a request to send_notification.
SendCall(w) ==
    /\ pc[w] = "idle"
    /\ rIn = None
    /\ started < MaxRequests
    /\ started' = started + 1
    /\ \E req \in SendRequests :
         /\ rIn' = Some(req)
         /\ request' = [request EXCEPT ![w] = req]
    /\ local' = [local EXCEPT ![w] = [NoLocal EXCEPT !.id = started + 1]]
    /\ pc' = [pc EXCEPT ![w] = "lock"]
    /\ UNCHANGED <<build, main, manager, registry, managerLock, storeLock,
                   notifications, shown, fsFiles, cb, spawned, clipboard,
                   rOut, aIn, aOut>>

SendNext ==
    \/ \E w \in Workers : SendCall(w)
    \/ \E w \in Workers : SendTyped(w)
    \/ \E w \in Workers : Insert(w)
    \/ \E w \in Workers : SetupHandlers(w)
    \/ \E w \in Workers : ShowCall(w)
    \/ \E w \in Workers : ShowReturn(w)
    \/ \E w \in Workers : Reply(w)

SpecSend == SendInit /\ [][SendNext]_vars

\* The request names an image file that is not on disk.
ImageMissing(req) ==
    IsSome(req.image_path) /\ Unwrap(req.image_path) \notin fsFiles

\* C27: a request that names an image file that does not exist fails in
\* rendering: the send returns the error, no entry is inserted for it and
\* Show is not called.
C27_MissingImageFailsBeforeInsert ==
    (IsSome(rIn) /\ ImageMissing(Unwrap(rIn))) =>
        /\ notifications = <<>>
        /\ shown = {}
        /\ \A w \in Workers : pc[w] \in {"idle", "lock", "500"}

C27_Witness ==
    /\ IsSome(rIn)
    /\ ImageMissing(Unwrap(rIn))
    /\ notifications = <<>>
    /\ \E w \in Workers : pc[w] = "500" /\ managerLock = Some(w)

-----------------------------------------------------------------------------
(* Requests that are not multipart *)

\* C28: for a request that is not multipart, the title, message, image
\* path, attachment paths and callback command of the document are those of
\* the NotificationRequest that is sent and of the metadata stored for it.
C28_StructuredFieldsKept ==
    (IsSome(rIn) /\ ~Unwrap(rIn).multipart /\ Unwrap(rIn).form.valid) =>
        LET doc == Unwrap(rIn).form
        IN  /\ \A w \in Workers :
                 pc[w] \in Sending =>
                     /\ doc.title = Some(request[w].title)
                     /\ doc.message = Some(request[w].message)
                     /\ doc.image_path = request[w].image_path
                     /\ doc.file_paths = request[w].file_paths
                     /\ doc.callback_command = request[w].callback_command
            /\ \A t \in DOMAIN notifications :
                 /\ doc.message = Some(notifications[t].message)
                 /\ doc.image_path = notifications[t].image_path
                 /\ doc.file_paths = notifications[t].file_paths
                 /\ doc.callback_command = notifications[t].callback_command

-----------------------------------------------------------------------------
(* handle_multipart on its own: rIn holds the parts of a body, rOut what    *)
(* handle_multipart returned for them.                                      *)

\* The part names the `match name` of handle_multipart has an arm for.
KnownNames == {"title", "message", "callback_command", "image", "files"}

\* Parts of a body: the five known ones, an attachment named like the file
\* an uploaded image is stored as, and parts under other names, with text,
\* with a file, with bytes that are not text, with no name.
IngestParts ==
    { TextPart("title", TitleT), TextPart("message", MessageM),
      TextPart("callback_command", Notepad),
      FilePart("image", PngName), FilePart("files", TxtName),
      FilePart("files", <<"i", "m", "a", "g", "e", ".", "p", "n", "g">>),
      TextPart("subtitle", TitleT), FilePart("file", TxtName),
      InvalidText("Title"), TextPart("", MessageM) }

RECURSIVE SeqsUpTo(_, _)
SeqsUpTo(S, n) ==
    IF n = 0 THEN {<<>>}
    ELSE LET shorter == SeqsUpTo(S, n - 1)
         IN  shorter \cup {Append(q, x) : q \in shorter, x \in S}

IngestInit == Init /\ build = "modular"

\* handle_multipart reads the parts of one body.
IngestCall ==
    /\ rIn = None
    /\ \E fields \in SeqsUpTo(IngestParts, MaxLen), ioOk \in BOOLEAN :
         /\ rIn' = Some([fields |-> fields, ioOk |-> ioOk])
         /\ rOut' = Some(handle_multipart(fields, scratch_dir(1), ioOk))
    /\ UNCHANGED <<sysVars, aIn, aOut>>

SpecIngest == IngestInit /\ [][IngestCall]_vars

IsKnown(f) == f.name \in KnownNames

\* C29: parts under names handle_multipart does not know never make it
\* fail and change nothing of what it returns: the status, the files
\* written and the NotificationRequest are those of the same body with
\* these parts taken out.
C29_UnknownPartsIgnored ==
    IsSome(rIn) =>
        LET in == Unwrap(rIn)
            known == SelectSeq(in.fields, IsKnown)
        IN  /\ Unwrap(rOut) = handle_multipart(known, scratch_dir(1), in.ioOk)
            /\ known = <<>> => Unwrap(rOut).status = 0

C29_Witness ==
    /\ IsSome(rIn)
    /\ Len(Unwrap(rIn).fields) = 3
    /\ ~IsKnown(Unwrap(rIn).fields[1])
    /\ ~IsKnown(Unwrap(rIn).fields[2])
    /\ Unwrap(rIn).fields[3] = TextPart("message", MessageM)
    /\ Unwrap(rOut).status = 0
    /\ Unwrap(rOut).request.message = MessageM

-----------------------------------------------------------------------------
(* The store after a send that failed *)

\* C30: a send that returns an error leaves the store as it was: every
\* entry of the store belongs to a toast that was shown, or to a send that
\* is still on its way to Show.
C30_FailedSendLeavesNoEntry ==
    \A t \in DOMAIN notifications :
        \/ \E s \in shown : t \in s.generated
        \/ \E w \in Workers :
             /\ pc[w] \in {"xml", "insert", "handlers", "show", "showing"}
             /\ t \in local[w].generated

-----------------------------------------------------------------------------
(* Rendering of texts that hold the text of a placeholder *)

\* Titles and messages: plain ones, the four placeholders, and a placeholder
\* inside other text.
PlaceholderTexts ==
    { TitleT, MessageM, TagPh, TitlePh, MessagePh, ImagePh,
      <<"a">> \o MessagePh \o <<"&">>, <<"<">> \o ImagePh }

\* A request whose title and message are drawn from PlaceholderTexts is
\* rendered, without an image or with one: a file on disk for prepare_xml,
\* image_data for main.rs.
RenderPlaceholder ==
    /\ rIn = None
    /\ \E title \in PlaceholderTexts, message \in PlaceholderTexts,
          image \in BOOLEAN :
         LET req == [NoRequest EXCEPT
                       !.title = title,
                       !.message = message,
                       !.image_path = IF image /\ build = "modular"
                                      THEN Some(ImageRef) ELSE None,
                       !.image_data = IF image /\ build = "monolith"
                                      THEN Some(DataD) ELSE None]
         IN  /\ rIn' = Some([title |-> title, message |-> message,
                             image |-> IF ~image THEN None
                                       ELSE IF build = "modular"
                                            THEN Some(ImageRef)
                                            ELSE Some(DataD)])
             /\ rOut' = Some(rendered(req, {ImageRef}))
    /\ UNCHANGED <<sysVars, aIn, aOut>>

SpecTemplate == RenderInit /\ [][RenderPlaceholder]_vars

\* The markup with each field at the position of its own placeholder.
Positional(in) ==
    LET title == <<TextOpen>> \o EscapedOnce(in.title) \o <<TextClose>>
        message == <<TextOpen>> \o EscapedOnce(in.message) \o <<TextClose>>
        tag == IF build = "modular" THEN TagOf(new_v4(1, 2))
               ELSE TagOf(new_v4(1, 1))
        image == IF in.image = None THEN <<>>
                 ELSE IF build = "modular"
                      THEN <<HeroOpen>> \o Unwrap(in.image) \o <<HeroClose>>
                      ELSE <<LogoOpen>> \o Unwrap(in.image) \o <<LogoClose>>
    IN  IF build = "modular"
        THEN <<TplHead, tag, TplAfterTag>> \o image \o title \o message
                \o <<TplTail>>
        ELSE <<TplHead, tag, TplAfterTag>> \o title \o message \o image
                \o <<TplTail>>

\* C31: substitution never takes user text for a placeholder: whatever the
\* title and the message hold, the text of {message} or {image} included,
\* the markup has the escaped title in the first text element only, the
\* escaped message in the second only, and the image element at the
\* position of {image} only.
C31_NoPlaceholderReinterpreted ==
    (IsSome(rOut) /\ Unwrap(rOut).ok) =>
        Unwrap(rOut).xml = Positional(Unwrap(rIn))

-----------------------------------------------------------------------------
(* Concurrent sends and callbacks under the scheduling the code relies on. *)

\* The requests all carry a command, so that every click has an effect.
LockRequests ==
    { [NoRequest EXCEPT !.title = TitleT, !.message = MessageM,
                        !.callback_command = Some(Notepad)] }

\* A request reaches manager.lock() (web.rs line 187, main.rs line 460).
LockCall(w) ==
    /\ pc[w] = "idle"
    /\ started < MaxRequests
    /\ started' = started + 1
    /\ \E req \in LockRequests :
         request' = [request EXCEPT ![w] = req]
    /\ local' = [local EXCEPT ![w] = [NoLocal EXCEPT !.id = started + 1]]
    /\ pc' = [pc EXCEPT ![w] = "lock"]
    /\ UNCHANGED <<build, main, manager, registry, managerLock, storeLock,
                   notifications, shown, fsFiles, cb, spawned, clipboard,
                   harnessVars>>

\* What a sending thread does once it holds the manager guard, the store
\* insert apart, up to its response.
HoldStep(w) ==
    \/ MainSendXml(w)
    \/ SetupHandlers(w)
    \/ ShowCall(w)
    \/ ShowReturn(w)
    \/ Reply(w)

LocksNext ==
    \/ \E w \in Workers : LockCall(w)
    \/ \E w \in Workers : SendTyped(w)
    \/ \E w \in Workers : MainSendBasic(w)
    \/ \E w \in Workers : HoldStep(w)
    \/ \E w \in Workers : Insert(w)
    \/ Activated
    \/ Dismissed
    \/ Failed
    \/ CbAcquire
    \/ CbBody
    \/ CbRelease

\* A thread that holds a guard keeps running, a thread waiting for a mutex
\* that is released again and again obtains it, and the platform calls
\* (Show, the process spawn, the clipboard) return.  Nothing is assumed of
\* a thread that has not yet taken a lock.
LocksFairness ==
    /\ \A w \in Workers : WF_vars(HoldStep(w))
    /\ \A w \in Workers : SF_vars(Insert(w))
    /\ WF_vars(CbBody)
    /\ WF_vars(CbRelease)

SpecLocks == Init /\ [][LocksNext]_vars /\ LocksFairness

\* The store lock is requested by a send only under the manager lock and is
\* not kept past the insert; a closure holds the store lock and nothing else.
LockOrder ==
    /\ \A w \in Workers : pc[w] = "insert" => managerLock = Some(w)
    /\ storeLock \in {None, Some("cb")}
    /\ storeLock = Some("cb") <=> cb.pc \in {"body", "release"}

\* C32: sends take the manager lock and then the store lock, callbacks take
\* only the store lock, and under any interleaving of sends and callbacks
\* every lock that is acquired is released again.
C32_LocksReleased ==
    /\ []LockOrder
    /\ \A w \in Workers : (managerLock = Some(w)) ~> (managerLock # Some(w))
    /\ (storeLock # None) ~> (storeLock = None)

\* A send holds the manager lock and waits for the store lock, which a
\* closure holds.
C32_Witness ==
    \E w \in Workers :
        /\ managerLock = Some(w)
        /\ pc[w] = "insert"
        /\ storeLock = Some("cb")

-----------------------------------------------------------------------------
(* The closures of a toast and its Show *)

\* The toast has a closure for each of the three events, and every closure
\* looks up the key under which the toast's metadata went into the store.
FullyAttached(handlers, key) ==
    /\ {h.kind : h \in handlers} = {HandlerKinds[i] : i \in DOMAIN HandlerKinds}
    /\ \A h \in handlers : h.tag = key

\* C33: when Show is called for a notification its Activated, Dismissed and
\* Failed handlers are attached and each looks up the tag under which the
\* notification's metadata was inserted; a send whose handlers fail to
\* attach ends without Show.
C33_HandlersBeforeShow ==
    /\ [](\A w \in Workers :
             pc[w] \in {"show", "showing"} =>
                 /\ FullyAttached(local[w].handlers, local[w].tag)
                 /\ local[w].tag \in DOMAIN notifications
                 /\ notifications[local[w].tag] = local[w].data)
    /\ [](\A t \in shown :
             /\ FullyAttached(t.handlers, t.key)
             /\ t.key \in DOMAIN notifications)
    /\ [][\A w \in Workers :
             (pc[w] = "handlers" /\ pc'[w] \notin {"handlers", "show"}) =>
                 /\ pc'[w] = "500"
                 /\ shown' = shown]_vars
    /\ [][\A w \in Workers :
             pc'[w] = "showing" /\ pc[w] # "showing" => pc[w] = "show"]_vars

\* The closure of a shown toast runs while a later send, whose handlers are
\* attached, is about to call Show, and an earlier attach has failed: the
\* store holds a key that no shown toast and no running send has.
C33_Witness ==
    /\ cb.pc = "body"
    /\ \E t \in shown : t.tag = cb.ev.tag /\ t.handlers # {}
    /\ \E w \in Workers : pc[w] = "show"
    /\ \E k \in DOMAIN notifications :
         /\ \A t \in shown : t.key # k
         /\ \A w \in Workers : local[w].tag # k

-----------------------------------------------------------------------------
(* Uploaded parts and the files they are stored in *)

\* The parts of a body that handle_multipart stores in a file.
Uploads(fields) ==
    SelectSeq(fields, LAMBDA f : f.name \in {"image", "files"}
                                     /\ IsSome(f.filename))

\* The paths a request refers to: its image, then its attachments.
StoredPaths(req) ==
    (IF IsSome(req.image_path) THEN <<Unwrap(req.image_path)>> ELSE <<>>)
        \o (IF IsSome(req.file_paths) THEN Unwrap(req.file_paths) ELSE <<>>)

\* C34: within one multipart request every image or files part is stored in
\* a file of its own: the image path and the entries of the attachment list
\* are pairwise distinct paths, and as many files are on disk as parts were
\* uploaded.
C34_NoPartOverwritesAnother ==
    (IsSome(rOut) /\ Unwrap(rOut).status = 0) =>
        LET paths == StoredPaths(Unwrap(rOut).request)
        IN  /\ \A i, j \in DOMAIN paths : paths[i] = paths[j] => i = j
            /\ Cardinality(Unwrap(rOut).written)
                   = Len(Uploads(Unwrap(rIn).fields))

====
